---- MODULE Spec2Model ----
(***************************************************************************)
(* Model of the Synapsis LIMS & supply-chain backend (main.py, schemas.py). *)
(*                                                                         *)
(* Four parts of the program are modelled:                                  *)
(*   - POST /inventory/forecast, a computation over the request's          *)
(*     consumption history (specification SpecForecast);                    *)
(*   - POST /invoices and POST /payments, which write the document store   *)
(*     and roll the payment status of an invoice up (specification Spec);   *)
(*   - POST /inventory/consume, which decrements the stock of a sku        *)
(*     (specification SpecInventory);                                       *)
(*   - the LIMS handlers that receive and reject a sample, add a result    *)
(*     and validate, each writing the sample status (specification          *)
(*     SpecLims).                                                           *)
(*                                                                         *)
(* Python floats are modelled by exact rationals <<num, den>> with den > 0. *)
(* On the inputs enumerated here the float computation and the exact one    *)
(* give the same integers.                                                  *)
(***************************************************************************)
EXTENDS Integers, Sequences, FiniteSets, TLC

VARIABLES
    db,       \* the document store: collection name -> sequence of documents
    db_ok,    \* TRUE iff `db is not None` (the database is configured)
    req,      \* the ForecastRequest being served
    resp,     \* the response of the latest forecast call, NoResponse before it
    prev,     \* the response of the forecast call before the latest one
    calls,    \* number of forecast calls made with req
    ret       \* what the latest store handler returned

vars == <<db, db_ok, req, resp, prev, calls, ret>>

----------------------------------------------------------------------------
(* Bounds of the model *)

MaxLen == 4          \* longest enumerated consumption history
MaxVal == 6          \* largest enumerated daily consumption
MaxNeg == 1          \* enumerated histories hold values down to -MaxNeg
MaxCalls == 2        \* forecast calls made with one request

MaxInvoices == 1     \* invoices stored
MaxPayments == 2     \* payments stored
MaxItems == 1        \* items of an enumerated invoice

MaxDeficit == 3      \* consume is followed down to a stock of -MaxDeficit

MaxSamples == 2      \* samples stored
MaxResults == 1      \* result entries stored
MaxValidations == 1  \* validation records stored

Skus == {"SKU1", "SKU2"}
InvoiceNos == {"INV1", "INV2"}
GstRates == {0, 18}
Quantities == {2}
Prices == {3}
Amounts == {0 - 1, 0, 3, 4}
ConsumeQtys == {0 - 2, 0, 1}
Barcodes == {"B1", "B2"}
Reasons == {"", "clotted"}     \* "" stands for None and for the empty string

(* The window length of the specification's scenarios (30 zeros, 30 fives) *)
ScenarioLen == 30

(* random.randint(0, 5) for _ in range(30): the synthetic history *)
FallbackLen == 30
FallbackMax == 5

----------------------------------------------------------------------------
(* Arithmetic helpers *)

Max(a, b) == IF a >= b THEN a ELSE b

(* sum(s[1..n]) *)
RECURSIVE SumTo(_, _)
SumTo(s, n) == IF n = 0 THEN 0 ELSE s[n] + SumTo(s, n - 1)

Sum(s) == SumTo(s, Len(s))

(* Python's round(): round to nearest, ties to the even neighbour.  k is   *)
(* the floor of the value; a and b compare the value with k + 1/2          *)
(* (a < b: below the midpoint, a = b: a tie, a > b: above).                *)
HalfAwayFromZero(k, a, b) ==
    IF a < b THEN k
    ELSE IF a > b THEN k + 1
    ELSE IF k >= 0 THEN k + 1 ELSE k

HalfEven(k, a, b) ==
    IF a < b THEN k
    ELSE IF a > b THEN k + 1
    ELSE IF k % 2 = 0 THEN k ELSE k + 1

(* round(q) of a rational q = <<num, den>> *)
Round(q) ==
    LET k == q[1] \div q[2]
        r == q[1] % q[2]
    IN  HalfEven(k, 2 * r, q[2])

(* floor(sqrt(num/den)), searched upwards from k *)
RECURSIVE FloorSqrt(_, _, _)
FloorSqrt(num, den, k) ==
    IF (k + 1) * (k + 1) * den <= num THEN FloorSqrt(num, den, k + 1) ELSE k

(* round(math.sqrt(v)) of a rational v = <<num, den>> >= 0:                *)
(* sqrt(v) < k + 1/2  iff  4 * num < (2k+1)^2 * den                        *)
RoundSqrt(v) ==
    LET k == FloorSqrt(v[1], v[2], 0)
    IN  HalfEven(k, 4 * v[1], (2 * k + 1) * (2 * k + 1) * v[2])

----------------------------------------------------------------------------
(* POST /inventory/forecast *)

lead_time_days == 7

(* avg = sum(data) / len(data) *)
Avg(data) == <<Sum(data), Len(data)>>

(* sum((x - avg) ** 2 for x in data[1..n]), as a rational over avg's den^2 *)
RECURSIVE SumSqDev(_, _, _)
SumSqDev(data, avg, n) ==
    IF n = 0 THEN 0
    ELSE (data[n] * avg[2] - avg[1]) * (data[n] * avg[2] - avg[1])
         + SumSqDev(data, avg, n - 1)

(* variance = sum((x - avg) ** 2 for x in data) / len(data) *)
Variance(data, avg) ==
    <<SumSqDev(data, avg, Len(data)), avg[2] * avg[2] * Len(data)>>

SafetyNoFloor(variance) == RoundSqrt(variance)

(* stddev = math.sqrt(variance); safety = max(2, int(round(stddev))) *)
Safety(variance) == Max(2, RoundSqrt(variance))

ReorderPointNoSafety(avg, safety) == Round(<<avg[1] * lead_time_days, avg[2]>>)

(* reorder_point = int(round(avg * lead_time_days + safety)) *)
ReorderPoint(avg, safety) ==
    Round(<<avg[1] * lead_time_days + safety * avg[2], avg[2]>>)

ReorderQtyNoFloor(avg) == Round(<<avg[1] * 14, avg[2]>>)

(* reorder_qty = int(max(5, round(avg * 14))) *)
ReorderQty(avg) == Max(5, Round(<<avg[1] * 14, avg[2]>>))

(* The three computed fields of the ForecastResponse for a history *)
ForecastOf(data) ==
    LET avg == Avg(data)
        variance == Variance(data, avg)
        safety == Safety(variance)
    IN  [recommended_reorder_qty |-> ReorderQty(avg),
         safety_stock |-> safety,
         reorder_point |-> ReorderPoint(avg, safety)]

----------------------------------------------------------------------------
(* The requests enumerated *)

Histories ==
    UNION {[1..n -> (0 - MaxNeg)..MaxVal] : n \in 0..MaxLen}
    \cup {[i \in 1..ScenarioLen |-> 0], [i \in 1..ScenarioLen |-> 5]}

(* ForecastRequest: sku: str, last_30d_consumption: List[int], default [] *)
ForecastRequest == [sku : Skus, last_30d_consumption : Histories]

(* The synthetic history [random.randint(0, 5) for _ in range(30)].  The   *)
(* forecast depends on the values drawn and not on their order, so each     *)
(* multiset of draws is enumerated once, as the sorted history made of a    *)
(* run of 0s, a run of 1s, ..., a run of FallbackMax.                       *)
Run(v, n) == [i \in 1..n |-> v]

(* The forecasts of the synthetic histories that start with prefix and     *)
(* continue with values >= v                                                *)
RECURSIVE ForecastsFrom(_, _)
ForecastsFrom(v, prefix) ==
    IF v = FallbackMax
    THEN {ForecastOf(prefix \o Run(v, FallbackLen - Len(prefix)))}
    ELSE UNION {ForecastsFrom(v + 1, prefix \o Run(v, c)) :
                    c \in 0..(FallbackLen - Len(prefix))}

(* What the handler can compute from an empty history *)
FallbackForecasts == ForecastsFrom(0, <<>>)

NoResponse ==
    [http |-> 0, sku |-> "", recommended_reorder_qty |-> 0,
     safety_stock |-> 0, reorder_point |-> 0]

(* ForecastResponse(sku=req.sku, ...), returned with HTTP 200 *)
ForecastResponse(sku, f) ==
    [http |-> 200, sku |-> sku,
     recommended_reorder_qty |-> f.recommended_reorder_qty,
     safety_stock |-> f.safety_stock,
     reorder_point |-> f.reorder_point]

(* data = req.last_30d_consumption or [random.randint(0, 5) ...] *)
Outcomes(r) ==
    IF r.last_30d_consumption # <<>>
    THEN {ForecastOf(r.last_30d_consumption)}
    ELSE FallbackForecasts

forecast_storing ==
    /\ calls < MaxCalls
    /\ \E f \in Outcomes(req) :
          /\ resp' = ForecastResponse(req.sku, f)
          /\ db' = IF db_ok
                   THEN [db EXCEPT !["inventoryitem"] =
                            Append(@, [sku |-> req.sku, qty |-> f.recommended_reorder_qty])]
                   ELSE db
    /\ prev' = resp
    /\ calls' = calls + 1
    /\ UNCHANGED <<db_ok, req, ret>>

forecast ==
    /\ calls < MaxCalls
    /\ \E f \in Outcomes(req) : resp' = ForecastResponse(req.sku, f)
    /\ prev' = resp
    /\ calls' = calls + 1
    /\ UNCHANGED <<db, db_ok, req, ret>>

----------------------------------------------------------------------------
(* The document store.  A collection is the sequence of its documents in    *)
(* insertion order; a document's position stands for its _id.  Timestamps   *)
(* (updated_at) and the fields no handler modelled here reads are left out. *)

Collections ==
    {"invoice", "payment", "inventoryitem", "sample", "resultentry", "validationrecord"}

EmptyStore == [c \in Collections |-> <<>>]

(* create_document(collection_name, data): insert one document *)
create_document(store, coll, doc) == [store EXCEPT ![coll] = Append(@, doc)]

(* collection.find_one({field: value}): the position of the first match,  *)
(* 0 if none                                                                *)
find_one(docs, field, value) ==
    IF \E i \in 1..Len(docs) : docs[i][field] = value
    THEN CHOOSE i \in 1..Len(docs) :
            docs[i][field] = value /\ \A j \in 1..(i - 1) : docs[j][field] # value
    ELSE 0

----------------------------------------------------------------------------
(* Finance: POST /invoices and POST /payments *)

(* InvoiceItem: sku, qty: int, price: float, gst_rate: float *)
InvoiceItem == [qty : Quantities, price : Prices, gst_rate : GstRates]

(* Invoice: invoice_no, items: List[InvoiceItem], status *)
Invoice ==
    [invoice_no : InvoiceNos,
     items : UNION {[1..n -> InvoiceItem] : n \in 0..MaxItems},
     status : {"unpaid", "overdue"}]

(* Payment: invoice_no, amount: float *)
Payment == [invoice_no : InvoiceNos, amount : Amounts]

NoReturn == [op |-> "", invoice_no |-> "", ok |-> FALSE]

(* What a handler returns after create_document: its id with a database;   *)
(* without one create_document has nothing to write to, and whether it      *)
(* raises is not decided here.                                              *)
Returned(op, no, ok) == [op |-> op, invoice_no |-> no, ok |-> ok]

create_invoice(inv) ==
    /\ Len(db["invoice"]) < MaxInvoices
    /\ IF db_ok
       THEN /\ db' = create_document(db, "invoice", inv)
            /\ ret' = Returned("create_invoice", inv.invoice_no, TRUE)
       ELSE /\ db' = db
            /\ \E ok \in BOOLEAN : ret' = Returned("create_invoice", inv.invoice_no, ok)
    /\ UNCHANGED <<db_ok, req, resp, prev, calls>>

(* paid = sum(x.get("amount", 0) for x in db["payment"].find({invoice_no})) *)
RECURSIVE PaidTo(_, _, _)
PaidTo(payments, no, n) ==
    IF n = 0 THEN 0
    ELSE (IF payments[n].invoice_no = no THEN payments[n].amount ELSE 0)
         + PaidTo(payments, no, n - 1)

Paid(payments, no) == PaidTo(payments, no, Len(payments))

(* total += qty * price; total += (qty * price) * (gst_rate / 100.0)       *)
(* in hundredths, over items[1..n]                                          *)
RECURSIVE TotalTo(_, _)
TotalTo(items, n) ==
    IF n = 0 THEN 0
    ELSE TotalTo(items, n - 1)
         + 100 * items[n].qty * items[n].price
         + items[n].qty * items[n].price * items[n].gst_rate

Total(items) == TotalTo(items, Len(items))

StatusStrict(paid, total) ==
    IF 100 * paid > total THEN "paid"
    ELSE IF paid > 0 THEN "partial" ELSE "unpaid"

(* "paid" if paid >= total else ("partial" if paid > 0 else "unpaid");     *)
(* total is in hundredths                                                   *)
Status(paid, total) ==
    IF 100 * paid >= total THEN "paid"
    ELSE IF paid > 0 THEN "partial" ELSE "unpaid"

add_payment(p) ==
    /\ Len(db["payment"]) < MaxPayments
    /\ IF db_ok
       THEN LET stored == create_document(db, "payment", p)
                inv == find_one(stored["invoice"], "invoice_no", p.invoice_no)
            IN  /\ db' = IF inv # 0
                         THEN [stored EXCEPT !["invoice"][inv].status =
                                  Status(Paid(stored["payment"], p.invoice_no),
                                         Total(stored["invoice"][inv].items))]
                         ELSE stored
                /\ ret' = Returned("add_payment", p.invoice_no, TRUE)
       ELSE /\ db' = db
            /\ \E ok \in BOOLEAN : ret' = Returned("add_payment", p.invoice_no, ok)
    /\ UNCHANGED <<db_ok, req, resp, prev, calls>>

----------------------------------------------------------------------------
(* Inventory: POST /inventory/consume *)

(* ConsumeRequest: sku: str, qty: int *)
ConsumeRequest == [sku : Skus, qty : ConsumeQtys]

(* abs(x) *)
Abs(x) == IF x < 0 THEN 0 - x ELSE x

IncSigned(qty) == 0 - qty

(* {"$inc": {"qty": -abs(req.qty)}} *)
Inc(qty) == 0 - Abs(qty)

(* update_one({"sku": sku}, {"$inc": {"qty": inc}}, upsert=True): the first *)
(* document with the sku has inc added to its qty; without one a document  *)
(* is inserted from the filter and the update                               *)
update_one_inc(docs, sku, inc) ==
    LET i == find_one(docs, "sku", sku)
    IN  IF i # 0
        THEN [docs EXCEPT ![i].qty = @ + inc]
        ELSE Append(docs, [sku |-> sku, qty |-> inc])

NoItem == [sku |-> "", qty |-> 0]

(* {"item": item}, or HTTP 500 "Database not configured" (ok = FALSE) *)
ConsumeReturn(r, ok, item) ==
    [op |-> "consume", ok |-> ok, sku |-> r.sku, qty |-> r.qty, item |-> item]

consume(r) ==
    /\ IF db_ok
       THEN LET items == update_one_inc(db["inventoryitem"], r.sku, Inc(r.qty))
                item == items[find_one(items, "sku", r.sku)]
            IN  /\ item.qty >= 0 - MaxDeficit
                /\ db' = [db EXCEPT !["inventoryitem"] = items]
                /\ ret' = ConsumeReturn(r, TRUE, item)
       ELSE /\ db' = db
            /\ ret' = ConsumeReturn(r, FALSE, NoItem)
    /\ UNCHANGED <<db_ok, req, resp, prev, calls>>

----------------------------------------------------------------------------
(* LIMS: POST /lims/sample/receive, /lims/sample/reject, /lims/result,      *)
(* /lims/validate                                                            *)

(* Sample.status: Literal["received", "rejected", "in_progress", "validated"] *)
SampleStatuses == {"received", "rejected", "in_progress", "validated"}

(* Sample: barcode, status, rejection_reason (patient, ordered_tests and   *)
(* received_at are not read by the handlers modelled)                       *)
Sample == [barcode : Barcodes, status : SampleStatuses, rejection_reason : Reasons]

(* RejectRequest: barcode, reason *)
RejectRequest == [barcode : Barcodes, reason : {"clotted"}]

(* ResultEntry: barcode, value, ref_low, ref_high, abnormal_flag; an       *)
(* Optional[float] is <<>> for None and <<x>> for x                         *)
ResultEntry ==
    [barcode : Barcodes, value : {1, 5}, abnormal_flag : {""},
     refs : {[ref_low |-> <<>>, ref_high |-> <<>>], [ref_low |-> <<3>>, ref_high |-> <<4>>]}]

(* ValidateRequest: barcode (reviewed_by and comments are only stored) *)
ValidateRequest == [barcode : Barcodes]

(* update_one({field: value}, {"$set": set}): the first match gets the     *)
(* fields of set; nothing changes without a match                           *)
update_one_set(docs, field, value, set) ==
    LET i == find_one(docs, field, value)
    IN  IF i # 0
        THEN [docs EXCEPT ![i] =
                 [f \in DOMAIN @ |-> IF f \in DOMAIN set THEN set[f] ELSE @[f]]]
        ELSE docs

(* what a LIMS handler returns; ok = FALSE is an HTTP error *)
LimsReturn(op, barcode, ok, status) ==
    [op |-> op, ok |-> ok, barcode |-> barcode, status |-> status]

(* sample.status = "received" if not sample.rejection_reason else "rejected" *)
ReceivedStatus(sample) == IF sample.rejection_reason = "" THEN "received" ELSE "rejected"

receive_sample(sample) ==
    /\ Len(db["sample"]) < MaxSamples
    /\ LET status == ReceivedStatus(sample)
       IN  IF db_ok
           THEN /\ db' = create_document(db, "sample", [sample EXCEPT !.status = status])
                /\ ret' = LimsReturn("receive_sample", sample.barcode, TRUE, status)
           ELSE /\ db' = db
                /\ \E ok \in BOOLEAN :
                      ret' = LimsReturn("receive_sample", sample.barcode, ok, status)
    /\ UNCHANGED <<db_ok, req, resp, prev, calls>>

(* 500 without a database, 404 when no sample has the barcode *)
reject_sample(r) ==
    /\ IF db_ok /\ find_one(db["sample"], "barcode", r.barcode) # 0
       THEN /\ db' = [db EXCEPT !["sample"] =
                         update_one_set(@, "barcode", r.barcode,
                                        [status |-> "rejected", rejection_reason |-> r.reason])]
            /\ ret' = LimsReturn("reject_sample", r.barcode, TRUE, "rejected")
       ELSE /\ db' = db
            /\ ret' = LimsReturn("reject_sample", r.barcode, FALSE, "")
    /\ UNCHANGED <<db_ok, req, resp, prev, calls>>

(* derive abnormal flag: "L" below ref_low, "H" above ref_high, H wins *)
AbnormalFlag(entry) ==
    IF entry.refs.ref_high # <<>> /\ entry.value > entry.refs.ref_high[1] THEN "H"
    ELSE IF entry.refs.ref_low # <<>> /\ entry.value < entry.refs.ref_low[1] THEN "L"
    ELSE entry.abnormal_flag

mark_in_progress_unless_closed(samples, barcode) ==
    LET i == find_one(samples, "barcode", barcode)
    IN  IF i # 0 /\ samples[i].status \in {"rejected", "validated"}
        THEN samples
        ELSE update_one_set(samples, "barcode", barcode, [status |-> "in_progress"])

(* mark sample in_progress *)
mark_in_progress(samples, barcode) ==
    update_one_set(samples, "barcode", barcode, [status |-> "in_progress"])

add_result(entry) ==
    /\ Len(db["resultentry"]) < MaxResults
    /\ LET flagged == [entry EXCEPT !.abnormal_flag = AbnormalFlag(entry)]
       IN  IF db_ok
           THEN /\ db' = [create_document(db, "resultentry", flagged) EXCEPT
                             !["sample"] = mark_in_progress(@, entry.barcode)]
                /\ ret' = LimsReturn("add_result", entry.barcode, TRUE, flagged.abnormal_flag)
           ELSE /\ db' = db
                /\ \E ok \in BOOLEAN :
                      ret' = LimsReturn("add_result", entry.barcode, ok, flagged.abnormal_flag)
    /\ UNCHANGED <<db_ok, req, resp, prev, calls>>

validate_results(r) ==
    /\ Len(db["validationrecord"]) < MaxValidations
    /\ IF db_ok
       THEN /\ db' = [create_document(db, "validationrecord",
                                      [barcode |-> r.barcode, status |-> "validated"]) EXCEPT
                         !["sample"] = update_one_set(@, "barcode", r.barcode,
                                                      [status |-> "validated"])]
            /\ ret' = LimsReturn("validate_results", r.barcode, TRUE, "validated")
       ELSE /\ db' = db
            /\ \E ok \in BOOLEAN :
                  ret' = LimsReturn("validate_results", r.barcode, ok, "validated")
    /\ UNCHANGED <<db_ok, req, resp, prev, calls>>

----------------------------------------------------------------------------
(* Specifications *)

(* The store handlers, from an empty store *)
Init ==
    /\ db = EmptyStore
    /\ db_ok \in BOOLEAN
    /\ req = [sku |-> "SKU1", last_30d_consumption |-> <<>>]
    /\ resp = NoResponse
    /\ prev = NoResponse
    /\ calls = 0
    /\ ret = NoReturn

Next ==
    \/ \E inv \in Invoice : create_invoice(inv)
    \/ \E p \in Payment : add_payment(p)

Spec == Init /\ [][Next]_vars

(* A store the handlers above leave behind (an invoice of 7.08 of which 3  *)
(* are paid), for the forecast to run against                               *)
StoreSample ==
    [EmptyStore EXCEPT
        !["invoice"] = <<[invoice_no |-> "INV1",
                          items |-> <<[qty |-> 2, price |-> 3, gst_rate |-> 18]>>,
                          status |-> "partial"]>>,
        !["payment"] = <<[invoice_no |-> "INV1", amount |-> 3]>>]

(* The stock the inventory starts from: inventoryitem documents are put   *)
(* into the store outside these handlers (schema InventoryItem); a sku may  *)
(* be held in several batches, each a document of its own.                  *)
Stocks ==
    {<<>>,
     <<[sku |-> "SKU1", qty |-> 2]>>,
     <<[sku |-> "SKU2", qty |-> 1], [sku |-> "SKU1", qty |-> 2], [sku |-> "SKU1", qty |-> 1]>>}

(* consume calls on a stocked inventory *)
InitInventory ==
    /\ db_ok \in BOOLEAN
    /\ db \in (IF db_ok
                THEN {[EmptyStore EXCEPT !["inventoryitem"] = st] : st \in Stocks}
                ELSE {EmptyStore})
    /\ req = [sku |-> "SKU1", last_30d_consumption |-> <<>>]
    /\ resp = NoResponse
    /\ prev = NoResponse
    /\ calls = 0
    /\ ret = NoReturn

NextInventory == \E r \in ConsumeRequest : consume(r)

SpecInventory == InitInventory /\ [][NextInventory]_vars

(* The LIMS handlers, from an empty store *)
NextLims ==
    \/ \E sample \in Sample : receive_sample(sample)
    \/ \E r \in RejectRequest : reject_sample(r)
    \/ \E entry \in ResultEntry : add_result(entry)
    \/ \E r \in ValidateRequest : validate_results(r)

SpecLims == Init /\ [][NextLims]_vars

(* Forecast calls on one request, repeated *)
InitForecast ==
    /\ db_ok \in BOOLEAN
    /\ db = (IF db_ok THEN StoreSample ELSE EmptyStore)
    /\ req \in ForecastRequest
    /\ resp = NoResponse
    /\ prev = NoResponse
    /\ calls = 0
    /\ ret = NoReturn

NextForecast == forecast

SpecForecast == InitForecast /\ [][NextForecast]_vars

----------------------------------------------------------------------------
(* Properties of POST /inventory/forecast, checked under SpecForecast *)

data == req.last_30d_consumption

NonEmpty == data # <<>>

NonNegative == \A i \in 1..Len(data) : data[i] >= 0

Served == calls > 0

(* C1: for every non-empty history of non-negative integers the            *)
(* safety_stock returned by forecast is at least 2.                         *)
C1_SafetyStockAtLeastTwo ==
    (Served /\ NonEmpty /\ NonNegative) =>
        (resp.http = 200 /\ resp.safety_stock >= 2)

(* a served history without any variance: the floor of 2 is what is returned *)
C1_Witness ==
    Served /\ data = <<3, 3, 3>> /\ resp.safety_stock = 2

(* C2: for every non-empty history the recommended_reorder_qty returned by *)
(* forecast is at least 5.                                                  *)
C2_ReorderQtyAtLeastFive ==
    (Served /\ NonEmpty) =>
        (resp.http = 200 /\ resp.recommended_reorder_qty >= 5)

(* a served history whose 14-day demand is below 5 *)
C2_Witness ==
    Served /\ data = <<0, 1, 0, 0>> /\ resp.recommended_reorder_qty = 5

(* C3: a forecast call with an empty history (the request carries no       *)
(* substitute) fails with InvalidInput and returns no forecast result.      *)
C3_EmptyHistoryFails ==
    (Served /\ ~NonEmpty) => resp.http # 200

(* C4: a forecast call whose history holds a negative quantity fails with  *)
(* InvalidInput instead of returning a forecast result.                     *)
C4_NegativeHistoryFails ==
    (Served /\ ~NonNegative) => resp.http # 200

(* C5: every response returned by forecast has safety_stock, reorder_point *)
(* and recommended_reorder_qty all non-negative integers.                   *)
C5_FieldsNonNegative ==
    (Served /\ resp.http = 200) =>
        /\ resp.safety_stock \in Nat
        /\ resp.reorder_point \in Nat
        /\ resp.recommended_reorder_qty \in Nat

(* C6: two forecast calls with the same request return the same response.  *)
C6_SameRequestSameResponse ==
    (calls >= 2) => (resp = prev)

(* C7: for a history whose entries all equal the same c >= 0, forecast     *)
(* returns safety_stock = 2, reorder_point = 7*c + 2 and                    *)
(* recommended_reorder_qty = max(5, 14*c).                                  *)
C7_ConstantHistory ==
    (Served /\ NonEmpty /\ NonNegative /\ \A i \in 1..Len(data) : data[i] = data[1]) =>
        /\ resp.safety_stock = 2
        /\ resp.reorder_point = 7 * data[1] + 2
        /\ resp.recommended_reorder_qty = (IF 14 * data[1] >= 5 THEN 14 * data[1] ELSE 5)

(* the scenario of 30 fives, served with (2, 37, 70) *)
C7_Witness ==
    /\ Served
    /\ data = [i \in 1..ScenarioLen |-> 5]
    /\ resp.safety_stock = 2
    /\ resp.reorder_point = 37
    /\ resp.recommended_reorder_qty = 70

(* C8: a forecast call leaves every collection of the document store       *)
(* unchanged, whatever the request.                                         *)
C8_ForecastLeavesStore == [][db' = db]_vars

(* forecast has been served against a store that holds documents *)
C8_Witness ==
    Served /\ db_ok /\ db["invoice"] # <<>> /\ db["payment"] # <<>>

(* The reference rounding: r is an integer nearest to num/den, and the     *)
(* even one of the two when num/den lies halfway between them.              *)
RefIsRound(r, num, den) ==
    LET d == 2 * (num - r * den)
    IN  /\ d <= den
        /\ 0 - d <= den
        /\ (d = den \/ 0 - d = den) => r % 2 = 0

(* The same for the square root of num/den >= 0 *)
RefIsRoundSqrt(r, num, den) ==
    /\ r >= 0
    /\ 4 * num <= (2 * r + 1) * (2 * r + 1) * den
    /\ r > 0 => 4 * num >= (2 * r - 1) * (2 * r - 1) * den
    /\ (4 * num = (2 * r + 1) * (2 * r + 1) * den) => r % 2 = 0
    /\ (r > 0 /\ 4 * num = (2 * r - 1) * (2 * r - 1) * den) => r % 2 = 0

RECURSIVE RefSumOver(_, _)
RefSumOver(f, S) ==
    IF S = {} THEN 0
    ELSE LET i == CHOOSE j \in S : TRUE
         IN  f[i] + RefSumOver(f, S \ {i})

----------------------------------------------------------------------------
(* Properties of POST /payments, checked under Spec *)

(* the first stored invoice with the invoice_no of the latest call, 0 if none *)
RefInvoice ==
    IF \E i \in 1..Len(db["invoice"]) : db["invoice"][i].invoice_no = ret.invoice_no
    THEN CHOOSE i \in 1..Len(db["invoice"]) :
            /\ db["invoice"][i].invoice_no = ret.invoice_no
            /\ \A j \in 1..Len(db["invoice"]) :
                  db["invoice"][j].invoice_no = ret.invoice_no => j >= i
    ELSE 0

(* 100 * the sum of the amounts of the stored payments for ret.invoice_no *)
RefPaid100 ==
    LET P == {i \in 1..Len(db["payment"]) : db["payment"][i].invoice_no = ret.invoice_no}
    IN  100 * RefSumOver([i \in P |-> db["payment"][i].amount], P)

(* 100 * the invoice total: sum of qty*price + qty*price*gst_rate/100 *)
RefTotal100(items) ==
    RefSumOver([i \in 1..Len(items) |->
                   items[i].qty * items[i].price * (100 + items[i].gst_rate)],
               1..Len(items))

(* C10: with the database configured and an invoice with the payment's     *)
(* invoice_no stored, the status written by the latest add_payment is       *)
(* "paid" iff the sum of all stored payments for that invoice_no is >= the  *)
(* invoice total, otherwise "partial" iff that sum is > 0, otherwise        *)
(* "unpaid"; the previous status is overwritten.                            *)
C10_PaymentStatusRollup ==
    (ret.op = "add_payment" /\ db_ok /\ RefInvoice # 0) =>
        LET inv == db["invoice"][RefInvoice]
        IN  /\ (inv.status = "paid") <=> (RefPaid100 >= RefTotal100(inv.items))
            /\ (inv.status = "partial") <=>
                  (RefPaid100 < RefTotal100(inv.items) /\ RefPaid100 > 0)
            /\ (inv.status = "unpaid") <=>
                  (RefPaid100 < RefTotal100(inv.items) /\ RefPaid100 <= 0)

(* two payments stored for one invoice, which the latest left partial *)
C10_Witness ==
    /\ ret.op = "add_payment" /\ db_ok /\ RefInvoice # 0
    /\ Len(db["payment"]) = 2
    /\ db["payment"][1].invoice_no = ret.invoice_no
    /\ db["payment"][2].invoice_no = ret.invoice_no
    /\ db["invoice"][RefInvoice].status = "partial"

----------------------------------------------------------------------------
(* Properties of POST /inventory/consume, checked under SpecInventory *)

(* |q|, stated without Abs: the natural number with the same square *)
RefMagnitude(q) == CHOOSE n \in 0..(q * q) : n * n = q * q

(* C11: a consume call changes the stored qty of the item with the         *)
(* request's sku (the document update_one matches: the first with that sku)  *)
(* by exactly -|qty|, for positive, zero and negative qty, and leaves every  *)
(* other document unchanged; no lower bound is enforced; a sku not yet       *)
(* stored is created with qty = -|qty|.                                      *)
C11_ConsumeStep ==
    (ret'.op = "consume" /\ ret'.ok) =>
        LET old == db["inventoryitem"]
            new == db'["inventoryitem"]
            sku == ret'.sku
            q == RefMagnitude(ret'.qty)
            Held == {i \in 1..Len(old) : old[i].sku = sku}
        IN  IF Held # {}
            THEN /\ Len(new) = Len(old)
                 /\ \E i \in Held :
                       /\ \A j \in Held : j >= i
                       /\ new[i].sku = sku
                       /\ new[i].qty = old[i].qty - q
                       /\ new[i].qty <= old[i].qty
                       /\ \A j \in 1..Len(old) : j # i => new[j] = old[j]
            ELSE new = old \o <<[sku |-> sku, qty |-> 0 - q]>>

C11_ConsumeDecrements == [][C11_ConsumeStep]_vars

(* a negative request has been consumed from a stocked sku, another sku    *)
(* has been created by upsert, and the stock has gone below zero            *)
C11_Witness ==
    /\ ret.op = "consume" /\ ret.ok /\ ret.qty < 0
    /\ ret.item.qty < 0
    /\ Len(db["inventoryitem"]) = 2
    /\ db["inventoryitem"][1] = [sku |-> "SKU1", qty |-> 0 - 1]
    /\ db["inventoryitem"][2].sku = "SKU2"

----------------------------------------------------------------------------
(* Properties of the sample status, checked under SpecLims *)

(* the status each call sets *)
RefStatusSet(op) ==
    CASE op = "reject_sample" -> "rejected"
      [] op = "add_result" -> "in_progress"
      [] op = "validate_results" -> "validated"

(* C12: with the database configured and exactly one stored sample with    *)
(* barcode b, a reject_sample, add_result or validate_results call on b     *)
(* sets that sample's status to rejected, in_progress or validated          *)
(* whatever it was before (last writer wins); samples with other barcodes   *)
(* keep their status; every status is one of received, rejected,            *)
(* in_progress, validated.                                                   *)
C12_StatusStep ==
    /\ \A i \in 1..Len(db'["sample"]) :
          db'["sample"][i].status \in {"received", "rejected", "in_progress", "validated"}
    /\ LET old == db["sample"]
           new == db'["sample"]
           b == ret'.barcode
           Same == {i \in 1..Len(old) : old[i].barcode = b}
       IN  (/\ db_ok
            /\ ret'.op \in {"reject_sample", "add_result", "validate_results"}
            /\ Cardinality(Same) = 1) =>
                /\ Len(new) = Len(old)
                /\ \A i \in 1..Len(old) :
                      /\ new[i].barcode = old[i].barcode
                      /\ new[i].status =
                            (IF i \in Same THEN RefStatusSet(ret'.op) ELSE old[i].status)

C12_LastWriterWins == [][C12_StatusStep]_vars

(* the only sample B1 was rejected and validated, and a later add_result   *)
(* has put it back to in_progress; the sample B2 is still as received       *)
C12_Witness ==
    /\ db_ok /\ ret.op = "add_result" /\ ret.barcode = "B1"
    /\ Len(db["validationrecord"]) = 1
    /\ db["validationrecord"][1].barcode = "B1"
    /\ db["sample"] = <<[barcode |-> "B1", status |-> "in_progress", rejection_reason |-> "clotted"],
                        [barcode |-> "B2", status |-> "received", rejection_reason |-> ""]>>

====
